---- MODULE Spec2Model ----
(***************************************************************************)
(* Model of the MCP core of homeassistant-mcp-controller:                  *)
(*   core/mcp_base.py   MCPRequest, MCPResponse, AbstractMCPServer          *)
(*   core/transport.py  StdioTransport (newline-delimited JSON over stdio) *)
(*   core/tools.py      ToolRegistry                                       *)
(* Python values are modelled as tagged records [t, v] so that None, ""    *)
(* and other strings stay distinct and Python truthiness can be computed.   *)
(***************************************************************************)
EXTENDS Integers, Sequences, FiniteSets, TLC

\* ---------------------------------------------------------------- bounds
\* Lines on the input stream of a serving process.
MaxLines == 2
\* Lines on the input stream when the transport is driven call by call.
MaxApiLines == 2
\* Response lines a call-by-call driver may write.
MaxOut == 1
\* Calls of shutdown() on one server.
MaxShutdowns == 2

\* ---------------------------------------------------------------- values
\* Python None, a str; Absent marks a key that a dict does not hold.
PyNone == [t |-> "null", v |-> ""]
Absent == [t |-> "absent", v |-> ""]
Str(s) == [t |-> "str", v |-> s]
\* A dict value (params), by its rendering.
Dict(s) == [t |-> "dict", v |-> s]

\* Python truthiness of a value: None, "" and {} are falsy.
Truthy(x) ==
    ~ \/ x.t = "null"
      \/ x.t = "absent"
      \/ (x.t = "str" /\ x.v = "")
      \/ (x.t = "dict" /\ x.v = "{}")

\* A content block list; MCPResponse.add_text appends {"type":"text","text":..}.
TextBlock(s) == [type |-> "text", text |-> s]

\* ------------------------------------------------------------- input lines
\* A line of the input stream, by what json.loads makes of it:
\*   malformed  - json.loads raises JSONDecodeError
\*   object     - a JSON object; tool/params/request_id hold the value, or Absent
\*   array      - the JSON array ["tool"]  ("tool" in data holds, data["tool"] raises)
\*   number     - a JSON number            ("tool" in data raises TypeError)
Line(k, tool, params, rid) ==
    [kind |-> k, tool |-> tool, params |-> params, request_id |-> rid]

ToolValues == {Absent, Str("a"), Str("zz"), Str(""), PyNone}
RidValues == {Absent, Str("r1"), Str(""), PyNone}
ParamValues == {PyNone, Dict("{}"), Dict("{x}")}

ObjectLines ==
    {Line("object", tl, Absent, rid) : tl \in ToolValues, rid \in RidValues}
    \cup {Line("object", Str("a"), p, Str("r1")) : p \in ParamValues}

Lines ==
    ObjectLines
    \cup {Line("malformed", Absent, Absent, Absent),
          Line("array", Absent, Absent, Absent),
          Line("number", Absent, Absent, Absent)}

\* readline() returns b"" at end of stream.
EOFLine == Line("eof", Absent, Absent, Absent)
\* No line was read.
NoLine == Line("none", Absent, Absent, Absent)

SeqsUpTo(S, n) == UNION {[1..k -> S] : k \in 0..n}

\* ---------------------------------------------------------------- messages
\* MCPRequest.__init__: params or {}, request_id None until set.
MCPRequest(tool_name, params) ==
    [isNone |-> FALSE,
     tool_name |-> tool_name,
     params |-> IF Truthy(params) THEN params ELSE Dict("{}"),
     request_id |-> PyNone]

\* The None that receive_request returns instead of a request.
NoRequest ==
    [isNone |-> TRUE, tool_name |-> PyNone, params |-> PyNone, request_id |-> PyNone]

\* An MCPResponse.__init__ that does not store is_error.
MCPResponse_flag_lost(contentArg, error, is_error) ==
    [content |-> IF contentArg.isNone THEN <<>> ELSE contentArg.blocks,
     error |-> error,
     is_error |-> FALSE,
     request_id |-> PyNone]

\* MCPResponse.__init__: content or [], error and is_error stored as given.
\* contentArg is [isNone, blocks]: the argument None, or a list of blocks.
MCPResponse(contentArg, error, is_error) ==
    [content |-> IF contentArg.isNone THEN <<>> ELSE contentArg.blocks,
     error |-> error,
     is_error |-> is_error,
     request_id |-> PyNone]

\* ------------------------------------------------------------------- tools
\* A tool instance: its name, an identity, and what execute does
\* (returns the result `message`, or raises with `message`).
Tool(n, i, f, m) == [name |-> n, id |-> i, fails |-> f, message |-> m]
ToolA1 == Tool("a", 1, FALSE, "done")
ToolA2 == Tool("a", 2, TRUE, "boom")
ToolB == Tool("b", 3, TRUE, "no backend")
ToolSet == {ToolA1, ToolA2, ToolB}
ToolNames == {"a", "b", "zz"}

\* The empty dict.
EmptyDict == [n \in {} |-> ToolA1]
\* d[k] = v on a dict.
DictSet(d, k, v) == [n \in (DOMAIN d) \cup {k} |-> IF n = k THEN v ELSE d[n]]
\* del d[k]
DictDel(d, k) == [n \in (DOMAIN d) \ {k} |-> d[n]]

VARIABLES
    connected,   \* StdioTransport._connected
    reader,      \* StdioTransport._reader: "None" or "StreamReader"
    writer,      \* StdioTransport._writer: "None" or "stdout"
    stdin,       \* lines of the input stream not yet read
    stdout,      \* response documents written so far, one per line
    tools,       \* AbstractMCPServer.tools: name -> tool
    reg_tools,   \* ToolRegistry._tools: name -> tool
    pc,          \* position of the server: setup, receive, dispatch, respond, stopped, crashed
    cur,         \* the request the serve loop holds
    resp,        \* the response the serve loop holds
    received,    \* log of the requests the serve loop received, with their lines
    last,        \* the last call made by a call-by-call driver, and its outcome
    now,         \* datetime.datetime.now(), in clock ticks
    sessions,    \* MemorySessionStorage._sessions: session id -> session
    issued,      \* the session ids uuid.uuid4() has returned so far
    tasks,       \* the coroutines in flight on the session manager
    shutdown_calls, \* how many times shutdown() has been called
    adapter,     \* the MS365MCPAdapter: its fields and the coroutine frames on it
    hass         \* hass.data of the OAuth views, and what the views have done

vars == <<connected, reader, writer, stdin, stdout, tools, reg_tools,
          pc, cur, resp, received, last,
          now, sessions, issued, tasks, shutdown_calls, adapter, hass>>

transportVars == <<connected, reader, writer, stdin, stdout>>
serverVars == <<pc, cur, resp, received>>
authVars == <<now, sessions, issued, tasks>>
controllerVars == <<adapter, hass>>

\* --------------------------------------------------------------- transport
\* StdioTransport.connect: binds both handles, then awaits connect_read_pipe,
\* and only after it sets _connected. pipe_ok: connect_read_pipe did not raise.
connect(conn, pipe_ok) ==
    [raised |-> ~pipe_ok,
     connected |-> IF pipe_ok THEN TRUE ELSE conn,
     reader |-> "StreamReader",
     writer |-> "stdout"]

\* A disconnect that clears the flag and keeps both handles.
disconnect_flag_only ==
    [connected |-> FALSE, reader |-> "StreamReader", writer |-> "stdout"]

\* StdioTransport.disconnect
disconnect ==
    [connected |-> FALSE, reader |-> "None", writer |-> "None"]

\* The document send_response builds from a response.
ResponseJson(response) ==
    [content |-> response.content,
     error |-> IF response.is_error THEN response.error ELSE Absent,
     request_id |-> IF Truthy(response.request_id)
                      THEN response.request_id ELSE Absent]

\* A send_response that returns early on an empty content list.
send_response_skip_empty(conn, wr, out, response) ==
    IF ~conn \/ wr = "None"
      THEN [raised |-> TRUE, out |-> out]
      ELSE [raised |-> FALSE,
            out |-> IF response.content = <<>> THEN out
                    ELSE Append(out, ResponseJson(response))]

\* A send_response that does not check _connected.
send_response_unchecked(conn, wr, out, response) ==
    IF wr = "None"
      THEN [raised |-> TRUE, out |-> out]
      ELSE [raised |-> FALSE, out |-> Append(out, ResponseJson(response))]

\* StdioTransport.send_response: raises RuntimeError when not connected
\* (and AttributeError on a writer that is None), else writes one line
\* holding the document.
send_response(conn, wr, out, response) ==
    IF ~conn \/ wr = "None"
      THEN [raised |-> TRUE, out |-> out]
      ELSE [raised |-> FALSE, out |-> Append(out, ResponseJson(response))]

\* The try block of receive_request on one line: the exception it raises,
\* or "none" and the value it returns.
TryReceive(rd, line) ==
    IF rd = "None" THEN [exc |-> "AttributeError", request |-> NoRequest]
    ELSE IF line.kind = "eof" THEN [exc |-> "none", request |-> NoRequest]
    ELSE IF line.kind = "malformed"
      THEN [exc |-> "JSONDecodeError", request |-> NoRequest]
    ELSE IF line.kind = "number"
      THEN [exc |-> "TypeError", request |-> NoRequest]
    ELSE IF line.kind = "object" /\ line.tool = Absent
      THEN [exc |-> "ValueError", request |-> NoRequest]
    ELSE IF line.kind = "array"
      THEN [exc |-> "TypeError", request |-> NoRequest]
    ELSE [exc |-> "none",
          request |->
            [MCPRequest(line.tool,
                        IF line.params = Absent THEN Dict("{}") ELSE line.params)
               EXCEPT !.request_id =
                 IF line.request_id # Absent THEN line.request_id ELSE PyNone]]

\* The line readline() yields on a bound reader, and what stays unread.
ReadLine(rd, in) ==
    IF rd = "None" THEN [line |-> NoLine, rest |-> in]
    ELSE IF in = <<>> THEN [line |-> EOFLine, rest |-> in]
    ELSE [line |-> Head(in), rest |-> Tail(in)]

\* A receive_request that catches json.JSONDecodeError only.
receive_request_narrow_except(conn, rd, in) ==
    IF ~conn
      THEN [raised |-> TRUE, stdin |-> in, line |-> NoLine, request |-> NoRequest]
      ELSE LET r == ReadLine(rd, in)
               got == TryReceive(rd, r.line)
           IN [raised |-> got.exc \notin {"none", "JSONDecodeError"},
               stdin |-> r.rest, line |-> r.line, request |-> got.request]

\* StdioTransport.receive_request: raises RuntimeError when not connected;
\* else reads one line and returns the request, or None at end of stream and
\* on every exception of the try block.
receive_request(conn, rd, in) ==
    IF ~conn
      THEN [raised |-> TRUE, stdin |-> in, line |-> NoLine, request |-> NoRequest]
      ELSE LET r == ReadLine(rd, in)
               got == TryReceive(rd, r.line)
           IN [raised |-> FALSE, stdin |-> r.rest, line |-> r.line,
               request |-> got.request]

\* ---------------------------------------------------------------- registry
\* A register that overwrites an existing entry.
register_overwrite(tls, tool) ==
    [raised |-> FALSE, tools |-> DictSet(tls, tool.name, tool)]

\* ToolRegistry.register: ValueError when the name is present, else insert.
register(tls, tool) ==
    IF tool.name \in DOMAIN tls
      THEN [raised |-> TRUE, tools |-> tls]
      ELSE [raised |-> FALSE, tools |-> DictSet(tls, tool.name, tool)]

\* ToolRegistry.unregister: KeyError when the name is absent, else delete.
unregister(tls, tool_name) ==
    IF tool_name \notin DOMAIN tls
      THEN [raised |-> TRUE, tools |-> tls]
      ELSE [raised |-> FALSE, tools |-> DictDel(tls, tool_name)]

\* The None that get_tool returns for a name it does not hold.
NoTool == Tool("", 0, FALSE, "")

\* ToolRegistry.get_tool: self._tools.get(tool_name)
get_tool(tls, tool_name) ==
    IF tool_name \in DOMAIN tls THEN tls[tool_name] ELSE NoTool

\* ToolRegistry.clear
clear == EmptyDict

\* AbstractMCPServer.register_tool: self.tools[tool.name] = tool
register_tool(tls, tool) ==
    [raised |-> FALSE, tools |-> DictSet(tls, tool.name, tool)]

\* ------------------------------------------------------------------ server
NoneArg == [isNone |-> TRUE, blocks |-> <<>>]
ListArg(b) == [isNone |-> FALSE, blocks |-> b]

\* handle_request of a concrete server (serve loop, section 4.4): look the tool
\* up by name; an absent tool gives an error response; else execute runs and
\* its result becomes the content, a failure it raises an error response with
\* the failure's message. The response echoes the request's request_id.
handle_request(tls, request) ==
    LET name == request.tool_name
        known == name.t = "str" /\ name.v \in DOMAIN tls
        r == IF ~known
               THEN MCPResponse(NoneArg, Str("unknown tool"), TRUE)
             ELSE IF tls[name.v].fails
               THEN MCPResponse(NoneArg, Str(tls[name.v].message), TRUE)
             ELSE MCPResponse(ListArg(<<TextBlock(tls[name.v].message)>>),
                              PyNone, FALSE)
    IN [r EXCEPT !.request_id = request.request_id]

NoResponse == MCPResponse(NoneArg, PyNone, FALSE)

\* The record of a call: the operation, whether it raised, the transport and
\* the mappings as they were before it, and what it read or returned.
Call(op, raised, conn, in, out, line, request) ==
    [op |-> op, raised |-> raised, was_connected |-> conn,
     stdin_before |-> in, stdout_before |-> out,
     line |-> line, request |-> request,
     tool |-> NoTool, name |-> "", before |-> EmptyDict]

RegistryCall(op, raised, tool, name, before) ==
    [op |-> op, raised |-> raised, was_connected |-> FALSE,
     stdin_before |-> <<>>, stdout_before |-> <<>>,
     line |-> NoLine, request |-> NoRequest,
     tool |-> tool, name |-> name, before |-> before]

NoCall == Call("none", FALSE, FALSE, <<>>, <<>>, NoLine, NoRequest)

\* MS365MCPAdapter.__init__: no HTTP session, not authenticated, no call in
\* progress and no request sent. hass.data before any login view ran.
InitController ==
    /\ adapter = [session |-> "None", is_authenticated |-> FALSE,
                  stack |-> <<>>, posts |-> 0, called |-> "none",
                  outcome |-> "none"]
    /\ hass = [implementations |-> {}, oauth_states |-> EmptyDict,
               issued |-> {}, exchanges |-> <<>>, callbacks |-> <<>>,
               response |-> [view |-> "none", status |-> 0, state |-> PyNone,
                             known |-> FALSE, exchanged |-> FALSE,
                             called_back |-> FALSE]]

\* No coroutine of the session manager is in flight.
NoTasks ==
    [get |-> [pc |-> "idle"], upd |-> [pc |-> "idle"],
     sweep |-> [pc |-> "idle"], del |-> [pc |-> "idle"]]

\* SessionManager.__init__ with the default MemorySessionStorage: no session.
InitAuth ==
    /\ now = 0
    /\ sessions = EmptyDict
    /\ issued = {}
    /\ tasks = NoTasks

\* The state after construction of transport, server, registry and the
\* session manager.
InitObjects ==
    /\ InitAuth
    /\ InitController
    /\ shutdown_calls = 0
    /\ connected = FALSE
    /\ reader = "None"
    /\ writer = "None"
    /\ stdout = <<>>
    /\ tools = EmptyDict
    /\ reg_tools = EmptyDict
    /\ pc = "setup"
    /\ cur = NoRequest
    /\ resp = NoResponse
    /\ received = <<>>
    /\ last = NoCall

\* ------------------------------------------------------- the serving process
\* Startup: the server registers its tools (register_tool) ...
SetupRegisterTool(t) ==
    /\ pc = "setup"
    /\ tools' = register_tool(tools, t).tools
    /\ UNCHANGED controllerVars
    /\ UNCHANGED <<authVars, shutdown_calls>>
    /\ UNCHANGED <<transportVars, reg_tools, serverVars, last>>

\* ... and connects its transport.
SetupConnect(pipe_ok) ==
    /\ pc = "setup"
    /\ ~connected
    /\ LET c == connect(connected, pipe_ok)
       IN /\ connected' = c.connected
          /\ reader' = c.reader
          /\ writer' = c.writer
    /\ UNCHANGED controllerVars
    /\ UNCHANGED <<authVars, shutdown_calls>>
    /\ UNCHANGED <<stdin, stdout, tools, reg_tools, serverVars, last>>

\* The serve loop is entered once the transport is connected.
StartServe ==
    /\ pc = "setup"
    /\ connected
    /\ pc' = "receive"
    /\ UNCHANGED controllerVars
    /\ UNCHANGED <<authVars, shutdown_calls>>
    /\ UNCHANGED <<transportVars, tools, reg_tools, cur, resp, received, last>>

\* Serve loop: request = await transport.receive_request(); no request ends
\* the loop.
LoopReceive ==
    /\ pc = "receive"
    /\ LET r == receive_request(connected, reader, stdin)
       IN /\ stdin' = r.stdin
          /\ last' = Call("receive_request", r.raised, connected, stdin, stdout,
                          r.line, r.request)
          /\ IF r.raised
               THEN pc' = "crashed" /\ UNCHANGED <<cur, received>>
             ELSE IF r.request.isNone
               THEN pc' = "stopped" /\ UNCHANGED <<cur, received>>
             ELSE /\ pc' = "dispatch"
                  /\ cur' = r.request
                  /\ received' = Append(received,
                                        [line |-> r.line, request |-> r.request])
    /\ UNCHANGED controllerVars
    /\ UNCHANGED <<authVars, shutdown_calls>>
    /\ UNCHANGED <<connected, reader, writer, stdout, tools, reg_tools, resp>>

\* Serve loop: response = await handle_request(request)
LoopDispatch ==
    /\ pc = "dispatch"
    /\ resp' = handle_request(tools, cur)
    /\ pc' = "respond"
    /\ UNCHANGED controllerVars
    /\ UNCHANGED <<authVars, shutdown_calls>>
    /\ UNCHANGED <<transportVars, tools, reg_tools, cur, received, last>>

\* Serve loop: await transport.send_response(response)
LoopRespond ==
    /\ pc = "respond"
    /\ LET s == send_response(connected, writer, stdout, resp)
       IN /\ stdout' = s.out
          /\ last' = Call("send_response", s.raised, connected, stdin, stdout,
                          NoLine, NoRequest)
          /\ pc' = IF s.raised THEN "crashed" ELSE "receive"
    /\ UNCHANGED controllerVars
    /\ UNCHANGED <<authVars, shutdown_calls>>
    /\ UNCHANGED <<connected, reader, writer, stdin, tools, reg_tools,
                   cur, resp, received>>

\* After the loop: shutdown releases the transport and enters the terminal
\* state. It may be called again there: it releases the transport again.
Shutdown ==
    /\ pc \in {"stopped", "shutdown"}
    /\ shutdown_calls < MaxShutdowns
    /\ connected' = disconnect.connected
    /\ reader' = disconnect.reader
    /\ writer' = disconnect.writer
    /\ pc' = "shutdown"
    /\ shutdown_calls' = shutdown_calls + 1
    /\ UNCHANGED controllerVars
    /\ UNCHANGED authVars
    /\ UNCHANGED <<stdin, stdout, tools, reg_tools, cur, resp, received, last>>

InitServe ==
    /\ InitObjects
    /\ stdin \in SeqsUpTo(Lines, MaxLines)

NextServe ==
    \/ \E t \in ToolSet : SetupRegisterTool(t)
    \/ \E ok \in BOOLEAN : SetupConnect(ok)
    \/ StartServe
    \/ LoopReceive
    \/ LoopDispatch
    \/ LoopRespond
    \/ Shutdown

SpecServe == InitServe /\ [][NextServe]_vars

\* ------------------------------------------- the transport, call by call
\* Lines a call-by-call driver puts on the input stream.
ApiLines ==
    {Line("malformed", Absent, Absent, Absent),
     Line("object", Str("a"), Absent, Str("r1"))}

\* Responses a caller can construct: MCPResponse(content, error, is_error),
\* then request_id set.
Responses ==
    {[MCPResponse(c, e, f) EXCEPT !.request_id = rid] :
        c \in {NoneArg, ListArg(<<TextBlock("hi")>>)},
        e \in {PyNone, Str(""), Str("boom")},
        f \in BOOLEAN,
        rid \in {PyNone, Str("r1")}}

ApiConnect(pipe_ok) ==
    /\ LET c == connect(connected, pipe_ok)
       IN /\ connected' = c.connected
          /\ reader' = c.reader
          /\ writer' = c.writer
          /\ last' = Call("connect", c.raised, connected, stdin, stdout,
                          NoLine, NoRequest)
    /\ UNCHANGED controllerVars
    /\ UNCHANGED <<authVars, shutdown_calls>>
    /\ UNCHANGED <<stdin, stdout, tools, reg_tools, serverVars>>

ApiDisconnect ==
    /\ connected' = disconnect.connected
    /\ reader' = disconnect.reader
    /\ writer' = disconnect.writer
    /\ last' = Call("disconnect", FALSE, connected, stdin, stdout,
                    NoLine, NoRequest)
    /\ UNCHANGED controllerVars
    /\ UNCHANGED <<authVars, shutdown_calls>>
    /\ UNCHANGED <<stdin, stdout, tools, reg_tools, serverVars>>

ApiSendResponse(response) ==
    /\ LET s == send_response(connected, writer, stdout, response)
       IN /\ Len(s.out) <= MaxOut
          /\ stdout' = s.out
          /\ last' = Call("send_response", s.raised, connected, stdin, stdout,
                          NoLine, NoRequest)
    /\ UNCHANGED controllerVars
    /\ UNCHANGED <<authVars, shutdown_calls>>
    /\ UNCHANGED <<connected, reader, writer, stdin, tools, reg_tools, serverVars>>

ApiReceiveRequest ==
    /\ LET r == receive_request(connected, reader, stdin)
       IN /\ stdin' = r.stdin
          /\ last' = Call("receive_request", r.raised, connected, stdin, stdout,
                          r.line, r.request)
    /\ UNCHANGED controllerVars
    /\ UNCHANGED <<authVars, shutdown_calls>>
    /\ UNCHANGED <<connected, reader, writer, stdout, tools, reg_tools, serverVars>>

InitTransport ==
    /\ InitObjects
    /\ stdin \in SeqsUpTo(ApiLines, MaxApiLines)

NextTransport ==
    \/ \E ok \in BOOLEAN : ApiConnect(ok)
    \/ ApiDisconnect
    \/ \E r \in Responses : ApiSendResponse(r)
    \/ ApiReceiveRequest

SpecTransport == InitTransport /\ [][NextTransport]_vars

\* ---------------------------------------- registry and server, call by call
ApiRegister(t) ==
    /\ LET r == register(reg_tools, t)
       IN /\ reg_tools' = r.tools
          /\ last' = RegistryCall("register", r.raised, t, t.name, reg_tools)
    /\ UNCHANGED controllerVars
    /\ UNCHANGED <<authVars, shutdown_calls>>
    /\ UNCHANGED <<transportVars, tools, serverVars>>

ApiUnregister(n) ==
    /\ LET r == unregister(reg_tools, n)
       IN /\ reg_tools' = r.tools
          /\ last' = RegistryCall("unregister", r.raised, NoTool, n, reg_tools)
    /\ UNCHANGED controllerVars
    /\ UNCHANGED <<authVars, shutdown_calls>>
    /\ UNCHANGED <<transportVars, tools, serverVars>>

ApiClear ==
    /\ reg_tools' = clear
    /\ last' = RegistryCall("clear", FALSE, NoTool, "", reg_tools)
    /\ UNCHANGED controllerVars
    /\ UNCHANGED <<authVars, shutdown_calls>>
    /\ UNCHANGED <<transportVars, tools, serverVars>>

ApiRegisterTool(t) ==
    /\ LET r == register_tool(tools, t)
       IN /\ tools' = r.tools
          /\ last' = RegistryCall("register_tool", r.raised, t, t.name, tools)
    /\ UNCHANGED controllerVars
    /\ UNCHANGED <<authVars, shutdown_calls>>
    /\ UNCHANGED <<transportVars, reg_tools, serverVars>>

InitRegistry ==
    /\ InitObjects
    /\ stdin = <<>>

NextRegistry ==
    \/ \E t \in ToolSet : ApiRegister(t)
    \/ \E n \in ToolNames : ApiUnregister(n)
    \/ ApiClear
    \/ \E t \in ToolSet : ApiRegisterTool(t)

SpecRegistry == InitRegistry /\ [][NextRegistry]_vars

\* ------------------------------------------------------------------ claims
\* A document that has the key "tool".
HasTool(line) == line.kind = "object" /\ line.tool # Absent

\* A well-formed request line: {"tool": string, "params"?: object,
\* "request_id"?: string} with a non-empty tool name.
WellFormed(line) ==
    /\ line.kind = "object"
    /\ line.tool.t = "str" /\ line.tool.v # ""
    /\ line.params.t \in {"absent", "dict"}
    /\ line.request_id.t \in {"absent", "str"}

\* Whether the server's mapping holds a tool under a request's tool name.
Known(request) ==
    request.tool_name.t = "str" /\ request.tool_name.v \in DOMAIN tools

\* C1: in the serve loop exactly one response is sent per received request,
\* in the order of receipt: at the head of the loop as many lines are written
\* as requests were received, in between exactly one is outstanding, and the
\* i-th line written is the response to the i-th request received.
C1_OneResponsePerRequestInOrder ==
    /\ pc # "crashed"
    /\ pc \in {"setup", "receive", "stopped", "shutdown"}
         => Len(stdout) = Len(received)
    /\ pc \in {"dispatch", "respond"}
         => Len(received) = Len(stdout) + 1
    /\ \A i \in 1..Len(stdout) :
         /\ i <= Len(received)
         /\ stdout[i] = ResponseJson(handle_request(tools, received[i].request))

\* Two requests with different answers were received and answered in order.
C1_Witness ==
    /\ pc = "stopped"
    /\ Len(stdout) = 2
    /\ stdout[1].content # <<>>
    /\ stdout[2].error = Str("unknown tool")

\* C2: the response line carries the request line's request_id whenever the
\* line had that key with a string value, and no request_id when it had none.
C2_RequestIdEchoed ==
    \A i \in 1..Len(stdout) :
        LET l == received[i].line
        IN WellFormed(l) =>
             /\ l.request_id.t = "str" => stdout[i].request_id = l.request_id
             /\ l.request_id = Absent => stdout[i].request_id = Absent

C4_LoopOutlivesBadLines ==
    pc \in {"stopped", "shutdown"}
        => \A i \in 1..Len(stdin) : ~WellFormed(stdin[i])

\* C5: on a connected transport receive_request does not raise; a malformed
\* line or a document without "tool" gives no request; a request comes only
\* from an object with "tool"; its request_id is the document's, or None.
C5_ReceiveTotalOnBadInput ==
    last.op = "receive_request" /\ last.was_connected =>
        /\ ~last.raised
        /\ ~HasTool(last.line) => last.request.isNone
        /\ ~last.request.isNone =>
             /\ HasTool(last.line)
             /\ last.request.tool_name = last.line.tool
             /\ last.request.request_id =
                  IF last.line.request_id # Absent
                    THEN last.line.request_id ELSE PyNone

\* A JSON array was read on a connected transport and gave no request.
C5_Witness ==
    /\ last.op = "receive_request"
    /\ last.was_connected
    /\ last.line.kind = "array"
    /\ last.request.isNone
    /\ ~last.raised

\* C6: send_response and receive_request raise, writing and reading nothing,
\* exactly when the transport is not connected; connect leaves it connected
\* with both handles bound, disconnect not connected with both released.
C6_ConnectionLifecycle ==
    /\ last.op \in {"send_response", "receive_request"} =>
         /\ last.raised <=> ~last.was_connected
         /\ last.raised => stdin = last.stdin_before /\ stdout = last.stdout_before
    /\ last.op = "send_response" /\ ~last.raised
         => Len(stdout) = Len(last.stdout_before) + 1
    /\ last.op = "connect" /\ ~last.raised
         => connected /\ reader # "None" /\ writer # "None"
    /\ last.op = "disconnect"
         => ~connected /\ reader = "None" /\ writer = "None"
    /\ connected => reader # "None" /\ writer # "None"

\* A send on a transport that was connected, wrote, and was disconnected.
C6_Witness ==
    /\ last.op = "send_response"
    /\ last.raised
    /\ reader = "None"
    /\ Len(stdout) = 1

\* C7: a register under a present name and an unregister of an absent name
\* fail and leave the mapping as it was; get_tool still returns the tool
\* registered first.
C7_FailedMutationsAreNoOps ==
    /\ last.op = "register" /\ last.name \in DOMAIN last.before =>
         /\ last.raised
         /\ reg_tools = last.before
         /\ get_tool(reg_tools, last.name) = last.before[last.name]
    /\ last.op = "unregister" /\ last.name \notin DOMAIN last.before =>
         /\ last.raised
         /\ reg_tools = last.before
    /\ last.op \in {"register", "unregister"} /\ last.raised
         => reg_tools = last.before

\* A second tool named "a" was refused and the first is still returned.
C7_Witness ==
    /\ last.op = "register"
    /\ last.raised
    /\ last.tool = ToolA2
    /\ get_tool(reg_tools, "a") = ToolA1

\* C8: register_tool on the server never replaces the tool held for a name:
\* after a call under a name already present, the tool held is the earlier one.
C8_FirstRegistrationKept ==
    last.op = "register_tool" /\ last.name \in DOMAIN last.before
        => tools[last.name] = last.before[last.name]

\* C9: a response line with an "error" key carries a non-empty string there.
C9_ErrorKeyNeverEmpty ==
    \A i \in 1..Len(stdout) :
        stdout[i].error # Absent
            => stdout[i].error.t = "str" /\ stdout[i].error.v # ""

\* C10: every request handed to the server has a non-empty string tool_name.
C10_ToolNameNonEmptyString ==
    pc = "dispatch" => cur.tool_name.t = "str" /\ cur.tool_name.v # ""

MaxTime == 3
\* Clock ticks in one second (timedelta(seconds=1)).
TicksPerSecond == 2

\* A datetime, an int.
Time(n) == [t |-> "time", at |-> n]
Num(k) == [t |-> "int", n |-> k]

\* `x or {}` on a dict argument that may be None.
OrEmptyDict(x) == IF x = PyNone \/ x = EmptyDict THEN EmptyDict ELSE x

\* dict.get(key, default)
DictGet(d, k, default) == IF k \in DOMAIN d THEN d[k] ELSE default

\* AuthSession.__init__; at is datetime.now() during construction.
AuthSession(session_id, auth_type, expires_at, credentials, metadata, at) ==
    [cls |-> "AuthSession",
     session_id |-> session_id,
     auth_type |-> auth_type,
     expires_at |-> expires_at,
     credentials |-> OrEmptyDict(credentials),
     metadata |-> OrEmptyDict(metadata),
     created_at |-> Time(at),
     last_used_at |-> Time(at)]

\* An is_expired that counts the instant expires_at itself as expired.
is_expired_inclusive(session, at) ==
    IF session.expires_at = PyNone THEN FALSE
    ELSE at >= session.expires_at.at

\* AuthSession.is_expired; at is datetime.now().
is_expired(session, at) ==
    IF session.expires_at = PyNone THEN FALSE
    ELSE at > session.expires_at.at

\* AuthSession.update_last_used
update_last_used(session, at) == [session EXCEPT !.last_used_at = Time(at)]

\* An isoformat that writes whole seconds only.
isoformat_seconds(d) ==
    [t |-> "iso", whole |-> d.at \div TicksPerSecond, frac |-> 0]

\* datetime.isoformat: the seconds and the fraction of a second, as text.
isoformat(d) ==
    [t |-> "iso", whole |-> d.at \div TicksPerSecond,
     frac |-> d.at % TicksPerSecond]

\* datetime.fromisoformat
fromisoformat(x) == Time(x.whole * TicksPerSecond + x.frac)

\* AuthSession.to_dict: expires_at is written only when it is truthy.
to_dict(session) ==
    LET data == [session_id |-> session.session_id,
                 auth_type |-> session.auth_type,
                 created_at |-> isoformat(session.created_at),
                 last_used_at |-> isoformat(session.last_used_at),
                 credentials |-> session.credentials,
                 metadata |-> session.metadata]
    IN IF Truthy(session.expires_at)
         THEN ("expires_at" :> isoformat(session.expires_at)) @@ data
         ELSE data

\* AuthSession.from_dict; at is datetime.now() during construction.
from_dict(data, at) ==
    LET expires_at ==
            IF "expires_at" \in DOMAIN data /\ Truthy(data["expires_at"])
              THEN fromisoformat(data["expires_at"]) ELSE PyNone
        session == AuthSession(data["session_id"], data["auth_type"],
                               expires_at,
                               DictGet(data, "credentials", EmptyDict),
                               DictGet(data, "metadata", EmptyDict), at)
    IN [session EXCEPT !.created_at = fromisoformat(data["created_at"]),
                       !.last_used_at = fromisoformat(data["last_used_at"])]

\* ---------------------------------------------------- MemorySessionStorage
\* save_session: store under the session's own id.
save_session(store, session) ==
    [store |-> DictSet(store, session.session_id, session), result |-> TRUE]

\* load_session: dict.get(session_id)
load_session(store, session_id) ==
    IF session_id \in DOMAIN store THEN store[session_id] ELSE PyNone

\* delete_session
delete_session(store, session_id) ==
    IF session_id \in DOMAIN store
      THEN [store |-> DictDel(store, session_id), result |-> TRUE]
      ELSE [store |-> store, result |-> FALSE]

\* get_all_sessions: the values of the dict.
get_all_sessions(store) == {store[k] : k \in DOMAIN store}

\* ----------------------------------------------------------- SessionManager
\* A create_session that tests `if expires_in:` instead of `is not None`.
create_session_truthy_expires(store, session_id, auth_type, expires_in, credentials, metadata, at) ==
    LET expires_at == IF expires_in # PyNone /\ expires_in.n # 0
                        THEN Time(at + expires_in.n * TicksPerSecond)
                        ELSE PyNone
        session == AuthSession(session_id, auth_type, expires_at,
                               credentials, metadata, at)
    IN [store |-> save_session(store, session).store, result |-> session]

\* SessionManager.create_session; session_id is str(uuid.uuid4()) and at is
\* datetime.now().
create_session(store, session_id, auth_type, expires_in, credentials, metadata, at) ==
    LET expires_at == IF expires_in # PyNone
                        THEN Time(at + expires_in.n * TicksPerSecond)
                        ELSE PyNone
        session == AuthSession(session_id, auth_type, expires_at,
                               credentials, metadata, at)
    IN [store |-> save_session(store, session).store, result |-> session]

\* A get_session that returns the refreshed session without saving it.
get_session_unsaved(store, session_id, at) ==
    LET session == load_session(store, session_id)
    IN IF session # PyNone
         THEN [store |-> store, result |-> update_last_used(session, at)]
         ELSE [store |-> store, result |-> PyNone]

\* SessionManager.get_session
get_session(store, session_id, at) ==
    LET session == load_session(store, session_id)
    IN IF session # PyNone
         THEN LET used == update_last_used(session, at)
              IN [store |-> save_session(store, used).store, result |-> used]
         ELSE [store |-> store, result |-> PyNone]

\* SessionManager.delete_session
manager_delete_session(store, session_id) == delete_session(store, session_id)

\* SessionManager.update_session
update_session(store, session) == save_session(store, session)

\* The loop of clean_expired_sessions over the sessions still to visit.
RECURSIVE sweep(_, _, _, _)
sweep(store, todo, deleted_count, at) ==
    IF todo = {} THEN [store |-> store, result |-> deleted_count]
    ELSE LET session == CHOOSE x \in todo : TRUE
         IN IF is_expired(session, at)
              THEN sweep(delete_session(store, session.session_id).store,
                         todo \ {session}, deleted_count + 1, at)
              ELSE sweep(store, todo \ {session}, deleted_count, at)

\* A clean_expired_sessions that returns the number of sessions it visited.
clean_expired_sessions_counts_visited(store, at) ==
    [store |-> sweep(store, get_all_sessions(store), 0, at).store,
     result |-> Cardinality(get_all_sessions(store))]

\* SessionManager.clean_expired_sessions
clean_expired_sessions(store, at) ==
    sweep(store, get_all_sessions(store), 0, at)

\* ----------------------------------- the session manager, call by call
\* The ids uuid.uuid4() can return.
SessionIds == {"s1", "s2"}

\* The lifetimes a caller passes to create_session.
ExpiresIn == {PyNone, Num(0), Num(1)}

\* The credentials and metadata a caller passes to create_session.
KeyCredentials == ("api_key" :> Str("k1"))
UserMetadata == ("user" :> Str("u1"))
CreateArgs ==
    {[credentials |-> PyNone, metadata |-> PyNone],
     [credentials |-> KeyCredentials, metadata |-> UserMetadata]}

\* A call on the session manager and its outcome: the arguments, the result,
\* the storage before the call and the time of the call.
AuthCall(op, session_id, arg, result, before, at) ==
    [op |-> op, session_id |-> session_id, arg |-> arg, result |-> result,
     before |-> before, at |-> at]

\* Time passes.
Tick ==
    /\ now < MaxTime
    /\ now' = now + 1
    /\ UNCHANGED controllerVars
    /\ UNCHANGED <<transportVars, tools, reg_tools, serverVars, last,
                   sessions, issued, tasks, shutdown_calls>>

ApiCreateSession(session_id, expires_in, args) ==
    /\ session_id \notin issued \cup DOMAIN sessions
    /\ LET r == create_session(sessions, session_id, "api_key", expires_in,
                               args.credentials, args.metadata, now)
       IN /\ sessions' = r.store
          /\ last' = AuthCall("create_session", session_id, expires_in,
                              r.result, sessions, now)
    /\ issued' = issued \cup {session_id}
    /\ UNCHANGED controllerVars
    /\ UNCHANGED <<transportVars, tools, reg_tools, serverVars,
                   now, tasks, shutdown_calls>>

ApiGetSession(session_id) ==
    /\ LET r == get_session(sessions, session_id, now)
       IN /\ sessions' = r.store
          /\ last' = AuthCall("get_session", session_id, PyNone,
                              r.result, sessions, now)
    /\ UNCHANGED controllerVars
    /\ UNCHANGED <<transportVars, tools, reg_tools, serverVars,
                   now, issued, tasks, shutdown_calls>>

ApiDeleteSession(session_id) ==
    /\ LET r == manager_delete_session(sessions, session_id)
       IN /\ sessions' = r.store
          /\ last' = AuthCall("delete_session", session_id, PyNone,
                              r.result, sessions, now)
    /\ UNCHANGED controllerVars
    /\ UNCHANGED <<transportVars, tools, reg_tools, serverVars,
                   now, issued, tasks, shutdown_calls>>

ApiCleanExpiredSessions ==
    /\ LET r == clean_expired_sessions(sessions, now)
       IN /\ sessions' = r.store
          /\ last' = AuthCall("clean_expired_sessions", "", PyNone,
                              r.result, sessions, now)
    /\ UNCHANGED controllerVars
    /\ UNCHANGED <<transportVars, tools, reg_tools, serverVars,
                   now, issued, tasks, shutdown_calls>>

ApiIsExpired(session_id) ==
    /\ session_id \in DOMAIN sessions
    /\ last' = AuthCall("is_expired", session_id, sessions[session_id],
                        is_expired(sessions[session_id], now), sessions, now)
    /\ UNCHANGED controllerVars
    /\ UNCHANGED <<transportVars, tools, reg_tools, serverVars,
                   now, sessions, issued, tasks, shutdown_calls>>

ApiRoundTrip(session_id) ==
    /\ session_id \in DOMAIN sessions
    /\ last' = AuthCall("from_dict", session_id, sessions[session_id],
                        from_dict(to_dict(sessions[session_id]), now),
                        sessions, now)
    /\ UNCHANGED controllerVars
    /\ UNCHANGED <<transportVars, tools, reg_tools, serverVars,
                   now, sessions, issued, tasks, shutdown_calls>>

InitSession ==
    /\ InitObjects
    /\ stdin = <<>>

NextSession ==
    \/ Tick
    \/ \E id \in SessionIds, e \in ExpiresIn, a \in CreateArgs :
          ApiCreateSession(id, e, a)
    \/ \E id \in SessionIds : ApiGetSession(id)
    \/ \E id \in SessionIds : ApiDeleteSession(id)
    \/ ApiCleanExpiredSessions
    \/ \E id \in SessionIds : ApiIsExpired(id)
    \/ \E id \in SessionIds : ApiRoundTrip(id)

SpecSession == InitSession /\ [][NextSession]_vars

\* C12: is_expired() is true exactly when expires_at is set and the time of
\* the call is strictly later than it: never for expires_at None, not at the
\* instant expires_at itself, and at every later instant.
C12_ExpiredStrictlyAfterExpiresAt ==
    last.op = "is_expired"
        => /\ last.arg.expires_at = PyNone => last.result = FALSE
           /\ last.arg.expires_at # PyNone
                => /\ last.at <= last.arg.expires_at.at => last.result = FALSE
                   /\ last.at > last.arg.expires_at.at => last.result = TRUE

\* is_expired() was asked at the very instant expires_at.
C12_Witness ==
    /\ last.op = "is_expired"
    /\ last.arg.expires_at = Time(last.at)
    /\ last.result = FALSE

\* C13: a sweep deletes the stored sessions that are expired at the time of
\* the sweep and no other, returns how many it deleted, leaves the deleted
\* ids unloadable and every other session loadable and unchanged.
C13_SweepDeletesExactlyExpired ==
    last.op = "clean_expired_sessions"
        => LET before == last.before
               expired == {id \in DOMAIN before :
                             /\ before[id].expires_at # PyNone
                             /\ last.at > before[id].expires_at.at}
           IN /\ last.result = Cardinality(expired)
              /\ \A id \in expired : load_session(sessions, id) = PyNone
              /\ \A id \in (DOMAIN before) \ expired :
                    load_session(sessions, id) = before[id]
              /\ DOMAIN sessions \subseteq DOMAIN before

\* A sweep deleted one session and kept another.
C13_Witness ==
    /\ last.op = "clean_expired_sessions"
    /\ last.result = 1
    /\ Cardinality(DOMAIN last.before) = 2
    /\ DOMAIN sessions # {}

\* C14: get_session on a stored id returns the stored session with
\* last_used_at set to the time of the call and stores exactly that, changing
\* no other field and no other session; on an unknown id it returns None and
\* leaves the storage as it was.
C14_GetSessionTouchesOnlyLastUsed ==
    last.op = "get_session"
        => IF last.session_id \in DOMAIN last.before
             THEN /\ last.result =
                       [last.before[last.session_id]
                           EXCEPT !.last_used_at = Time(last.at)]
                  /\ sessions =
                       [last.before EXCEPT ![last.session_id] = last.result]
             ELSE /\ last.result = PyNone
                  /\ sessions = last.before

\* get_session moved last_used_at of one of two stored sessions.
C14_Witness ==
    /\ last.op = "get_session"
    /\ last.session_id \in DOMAIN last.before
    /\ last.before[last.session_id].last_used_at # Time(last.at)
    /\ Cardinality(DOMAIN sessions) = 2

\* C15: create_session returns a session under an id the storage did not
\* hold, with expires_at = time of the call + expires_in when expires_in is
\* given (0 included) and None when it is not; the session is loadable right
\* after and every session stored before is unchanged.
C15_CreateSessionFreshAndStored ==
    last.op = "create_session"
        => /\ last.result.session_id \notin DOMAIN last.before
           /\ last.arg = PyNone => last.result.expires_at = PyNone
           /\ last.arg # PyNone
                => last.result.expires_at =
                       Time(last.at + last.arg.n * TicksPerSecond)
           /\ load_session(sessions, last.result.session_id) = last.result
           /\ \A id \in DOMAIN last.before :
                 load_session(sessions, id) = last.before[id]

\* create_session was called with expires_in = 0 next to a stored session.
C15_Witness ==
    /\ last.op = "create_session"
    /\ last.arg = Num(0)
    /\ last.result.expires_at = Time(last.at)
    /\ DOMAIN last.before # {}

\* C16: from_dict(to_dict(s)) has the session_id, auth_type, expires_at,
\* credentials, metadata, created_at and last_used_at of s.
C16_DictRoundTrip ==
    last.op = "from_dict"
        => /\ last.result.session_id = last.arg.session_id
           /\ last.result.auth_type = last.arg.auth_type
           /\ last.result.expires_at = last.arg.expires_at
           /\ last.result.credentials = last.arg.credentials
           /\ last.result.metadata = last.arg.metadata
           /\ last.result.created_at = last.arg.created_at
           /\ last.result.last_used_at = last.arg.last_used_at

\* A session with an expiry, credentials and a created_at that is not a whole
\* second went through to_dict and from_dict at a later time.
C16_Witness ==
    /\ last.op = "from_dict"
    /\ last.arg.expires_at # PyNone
    /\ last.arg.credentials # EmptyDict
    /\ last.arg.created_at.at % TicksPerSecond # 0
    /\ last.at > last.arg.created_at.at

\* -------------------------------------------------------------------- OAuth2
\* OAuth2Session.__init__: refresh_token and scope enter the credentials only
\* when they are truthy.
OAuth2Session(session_id, access_token, refresh_token, expires_at, scope, token_type, metadata, at) ==
    LET c0 == ("access_token" :> access_token) @@ ("token_type" :> token_type)
        c1 == IF Truthy(refresh_token)
                THEN DictSet(c0, "refresh_token", refresh_token) ELSE c0
        c2 == IF Truthy(scope) THEN DictSet(c1, "scope", scope) ELSE c1
    IN [AuthSession(session_id, "oauth2", expires_at, c2,
                    OrEmptyDict(metadata), at)
            EXCEPT !.cls = "OAuth2Session"]

\* OAuth2Session.refresh_token: credentials.get("refresh_token")
refresh_token(session) == DictGet(session.credentials, "refresh_token", PyNone)

\* OAuth2Session.from_token_response; a response without access_token raises
\* KeyError.
from_token_response(session_id, token_data, at) ==
    LET expires_at ==
            IF "expires_in" \in DOMAIN token_data
              THEN Time(at + token_data["expires_in"].n * TicksPerSecond)
            ELSE IF "expires_at" \in DOMAIN token_data
              THEN Time(token_data["expires_at"].n * TicksPerSecond)
            ELSE PyNone
    IN IF "access_token" \notin DOMAIN token_data
         THEN [raised |-> TRUE, result |-> PyNone]
         ELSE [raised |-> FALSE,
               result |-> OAuth2Session(session_id,
                              token_data["access_token"],
                              DictGet(token_data, "refresh_token", PyNone),
                              expires_at,
                              DictGet(token_data, "scope", PyNone),
                              DictGet(token_data, "token_type", Str("Bearer")),
                              PyNone, at)]

\* A refresh_session that catches every failure and hands the session back.
refresh_session_swallow(session, outcome, at) ==
    [raised |-> FALSE, result |-> session, session |-> session]

\* A refresh_session that builds the session from the response as it came.
refresh_session_forgets_token(session, outcome, at) ==
    IF ~Truthy(refresh_token(session)) \/ outcome.kind # "ok"
      THEN [raised |-> TRUE, result |-> PyNone, session |-> session]
      ELSE LET r == from_token_response(session.session_id, outcome.body, at)
           IN IF r.raised
                THEN [raised |-> TRUE, result |-> PyNone, session |-> session]
                ELSE [raised |-> FALSE,
                      result |-> [r.result EXCEPT !.metadata = session.metadata],
                      session |-> session]

\* A refresh_session that writes the new tokens into the session it was given.
refresh_session_in_place(session, outcome, at) ==
    IF ~Truthy(refresh_token(session)) \/ outcome.kind # "ok"
         \/ "access_token" \notin DOMAIN outcome.body
      THEN [raised |-> TRUE, result |-> PyNone, session |-> session]
      ELSE LET updated ==
                 [session EXCEPT !.credentials =
                     DictSet(@, "access_token", outcome.body["access_token"])]
           IN [raised |-> FALSE, result |-> updated, session |-> updated]

\* OAuth2Provider.refresh_session. outcome is what the token endpoint does:
\* the POST raises, raise_for_status raises, or a JSON body arrives. The
\* result carries the session object that was passed in, as it is afterwards.
refresh_session(session, outcome, at) ==
    IF ~Truthy(refresh_token(session))
      THEN [raised |-> TRUE, result |-> PyNone, session |-> session]
    ELSE IF outcome.kind # "ok"
      THEN [raised |-> TRUE, result |-> PyNone, session |-> session]
    ELSE LET token_data ==
                 IF "refresh_token" \notin DOMAIN outcome.body
                      /\ Truthy(refresh_token(session))
                   THEN DictSet(outcome.body, "refresh_token",
                                refresh_token(session))
                   ELSE outcome.body
             r == from_token_response(session.session_id, token_data, at)
         IN IF r.raised
              THEN [raised |-> TRUE, result |-> PyNone, session |-> session]
              ELSE [raised |-> FALSE,
                    result |-> [r.result EXCEPT !.metadata = session.metadata],
                    session |-> session]

\* ------------------------------------------- the OAuth2 provider, call by call
\* Token responses to the first grant, and the metadata the caller attaches
\* to the session built from each.
GrantArgs ==
    {[body |-> ("access_token" :> Str("at1")) @@ ("refresh_token" :> Str("r1")),
      metadata |-> EmptyDict],
     [body |-> ("access_token" :> Str("at1")),
      metadata |-> UserMetadata],
     [body |-> ("access_token" :> Str("at1")) @@ ("refresh_token" :> Str("r1"))
                  @@ ("expires_in" :> Num(0)),
      metadata |-> UserMetadata]}

\* What the token endpoint does with a refresh: the POST raises, the status
\* is an error, or a JSON body arrives (without a refresh token, with a new
\* one, with a null one, or without an access token).
RefreshOutcomes ==
    {[kind |-> "post_raises", body |-> EmptyDict],
     [kind |-> "http_error", body |-> EmptyDict],
     [kind |-> "ok", body |-> ("access_token" :> Str("at2"))],
     [kind |-> "ok", body |-> ("access_token" :> Str("at2"))
                               @@ ("refresh_token" :> Str("r2"))
                               @@ ("expires_in" :> Num(1))],
     [kind |-> "ok", body |-> ("access_token" :> Str("at2"))
                               @@ ("refresh_token" :> PyNone)],
     [kind |-> "ok", body |-> ("error" :> Str("invalid_grant"))]}

\* handle_auth_callback builds a session from the token response under a new
\* uuid4; the caller attaches metadata and persists it with update_session.
ApiStoreOAuthSession(session_id, body, metadata) ==
    /\ session_id \notin issued \cup DOMAIN sessions
    /\ LET session == [from_token_response(session_id, body, now).result
                          EXCEPT !.metadata = metadata]
       IN /\ sessions' = update_session(sessions, session).store
          /\ last' = AuthCall("handle_auth_callback", session_id, body,
                              session, sessions, now)
    /\ issued' = issued \cup {session_id}
    /\ UNCHANGED controllerVars
    /\ UNCHANGED <<transportVars, tools, reg_tools, serverVars,
                   now, tasks, shutdown_calls>>

\* refresh_session on the session object the storage holds under session_id:
\* whatever the call does to that object shows in the storage.
ApiRefreshSession(session_id, outcome) ==
    /\ session_id \in DOMAIN sessions
    /\ LET r == refresh_session(sessions[session_id], outcome, now)
       IN /\ sessions' = [sessions EXCEPT ![session_id] = r.session]
          /\ last' = AuthCall("refresh_session", session_id,
                              [session |-> sessions[session_id],
                               outcome |-> outcome],
                              r, sessions, now)
    /\ UNCHANGED controllerVars
    /\ UNCHANGED <<transportVars, tools, reg_tools, serverVars,
                   now, issued, tasks, shutdown_calls>>

\* The caller persists the session a successful refresh returned.
ApiPersistRefreshed ==
    /\ last.op = "refresh_session"
    /\ ~last.result.raised
    /\ sessions' = update_session(sessions, last.result.result).store
    /\ last' = AuthCall("update_session", last.session_id, last.result.result,
                        TRUE, sessions, now)
    /\ UNCHANGED controllerVars
    /\ UNCHANGED <<transportVars, tools, reg_tools, serverVars,
                   now, issued, tasks, shutdown_calls>>

InitOAuth ==
    /\ InitObjects
    /\ stdin = <<>>

NextOAuth ==
    \/ Tick
    \/ \E id \in SessionIds, g \in GrantArgs :
          ApiStoreOAuthSession(id, g.body, g.metadata)
    \/ \E id \in SessionIds, o \in RefreshOutcomes : ApiRefreshSession(id, o)
    \/ ApiPersistRefreshed

SpecOAuth == InitOAuth /\ [][NextOAuth]_vars

\* C18: when refresh_session fails, for want of a refresh token or because the
\* token endpoint rejects or fails the exchange, the failure is raised and the
\* session stored under that id is as it was before the call.
C18_FailedRefreshLeavesStorage ==
    /\ last.op = "refresh_session"
         /\ (~Truthy(refresh_token(last.arg.session))
               \/ last.arg.outcome.kind # "ok"
               \/ "access_token" \notin DOMAIN last.arg.outcome.body)
         => /\ last.result.raised
            /\ last.session_id \in DOMAIN sessions
            /\ sessions[last.session_id] = last.before[last.session_id]
    /\ last.op = "refresh_session" /\ last.result.raised
         => sessions = last.before

\* The token endpoint rejected the refresh of a session holding a refresh
\* token.
C18_Witness ==
    /\ last.op = "refresh_session"
    /\ Truthy(refresh_token(last.arg.session))
    /\ last.arg.outcome.kind = "http_error"
    /\ last.result.raised

\* C19: a refresh whose response omits refresh_token returns a session with
\* the refresh token of the input; a response that supplies a refresh token
\* returns a session with that one.
C19_RefreshTokenCarriedOrReplaced ==
    last.op = "refresh_session" /\ ~last.result.raised
        => LET body == last.arg.outcome.body
           IN /\ "refresh_token" \notin DOMAIN body
                   => refresh_token(last.result.result)
                        = refresh_token(last.arg.session)
              /\ "refresh_token" \in DOMAIN body /\ Truthy(body["refresh_token"])
                   => refresh_token(last.result.result) = body["refresh_token"]

\* A refresh whose response held no refresh token returned a session that
\* still holds the old one.
C19_Witness ==
    /\ last.op = "refresh_session"
    /\ ~last.result.raised
    /\ "refresh_token" \notin DOMAIN last.arg.outcome.body
    /\ refresh_token(last.result.result) = Str("r1")

\* C20: a successful refresh returns a new session with the session_id of the
\* input and metadata equal to the input's, and the input session keeps its
\* credentials, expires_at and metadata.
C20_RefreshReplacesNotMutates ==
    last.op = "refresh_session" /\ ~last.result.raised
        => /\ last.result.result.session_id = last.arg.session.session_id
           /\ last.result.result.metadata = last.arg.session.metadata
           /\ last.result.session.credentials = last.arg.session.credentials
           /\ last.result.session.expires_at = last.arg.session.expires_at
           /\ last.result.session.metadata = last.arg.session.metadata

\* A refresh returned a session with new credentials and a new expiry for an
\* input session that carries metadata.
C20_Witness ==
    /\ last.op = "refresh_session"
    /\ ~last.result.raised
    /\ last.arg.session.metadata # EmptyDict
    /\ last.result.result.credentials # last.arg.session.credentials
    /\ last.result.result.expires_at # last.arg.session.expires_at

\* ------------------------------- get_session and update_session, interleaved
\* Two coroutines on one session manager: a lookup (get_session) and a
\* refresh that persists its result (refresh_session, then update_session).
\* Each `await self.storage...` is a point where the other coroutine may run;
\* the storage call itself is one step.

\* The token endpoint's answer to the refresh.
RefreshedBody ==
    ("access_token" :> Str("at2")) @@ ("refresh_token" :> Str("r2"))

\* get_session up to and including `await self.storage.load_session(..)`.
GetLoad(session_id) ==
    /\ tasks.get.pc = "idle"
    /\ tasks' = [tasks EXCEPT !.get =
                    [pc |-> "loaded", session_id |-> session_id,
                     session |-> load_session(sessions, session_id)]]
    /\ UNCHANGED controllerVars
    /\ UNCHANGED <<transportVars, tools, reg_tools, serverVars, last,
                   now, sessions, issued, shutdown_calls>>

\* get_session from `if session:` to its return: update_last_used and
\* `await self.storage.save_session(session)` on the session it holds.
GetSave ==
    /\ tasks.get.pc = "loaded"
    /\ IF tasks.get.session # PyNone
         THEN LET used == update_last_used(tasks.get.session, now)
              IN /\ sessions' = save_session(sessions, used).store
                 /\ tasks' = [tasks EXCEPT !.get =
                                 [pc |-> "done",
                                  session_id |-> tasks.get.session_id,
                                  result |-> used]]
         ELSE /\ sessions' = sessions
              /\ tasks' = [tasks EXCEPT !.get =
                              [pc |-> "done",
                               session_id |-> tasks.get.session_id,
                               result |-> PyNone]]
    /\ UNCHANGED controllerVars
    /\ UNCHANGED <<transportVars, tools, reg_tools, serverVars, last,
                   now, issued, shutdown_calls>>

\* The refreshing coroutine calls refresh_session on the stored session; the
\* exchange succeeds and it holds the new session.
UpdRefresh(session_id) ==
    /\ tasks.upd.pc = "idle"
    /\ session_id \in DOMAIN sessions
    /\ LET r == refresh_session(sessions[session_id],
                                [kind |-> "ok", body |-> RefreshedBody], now)
       IN /\ ~r.raised
          /\ tasks' = [tasks EXCEPT !.upd =
                          [pc |-> "refreshed", session |-> r.result]]
    /\ UNCHANGED controllerVars
    /\ UNCHANGED <<transportVars, tools, reg_tools, serverVars, last,
                   now, sessions, issued, shutdown_calls>>

\* update_session: `await self.storage.save_session(session)`.
UpdSave ==
    /\ tasks.upd.pc = "refreshed"
    /\ sessions' = update_session(sessions, tasks.upd.session).store
    /\ tasks' = [tasks EXCEPT !.upd =
                    [pc |-> "done", session |-> tasks.upd.session]]
    /\ UNCHANGED controllerVars
    /\ UNCHANGED <<transportVars, tools, reg_tools, serverVars, last,
                   now, issued, shutdown_calls>>

InitConc ==
    /\ InitObjects
    /\ stdin = <<>>

NextConc ==
    \/ Tick
    \/ \E id \in SessionIds, g \in GrantArgs :
          ApiStoreOAuthSession(id, g.body, g.metadata)
    \/ \E id \in SessionIds : GetLoad(id)
    \/ GetSave
    \/ \E id \in SessionIds : UpdRefresh(id)
    \/ UpdSave

SpecSessionConc == InitConc /\ [][NextConc]_vars

oauth2_validate_session_lenient(session, outcome, at) ==
    [result |-> session.cls = "OAuth2Session", exchanged |-> FALSE,
     session |-> session]

\* OAuth2Provider.validate_session. The result of refresh_session is dropped:
\* the caller gets the verdict and keeps the session object it passed in.
\* exchanged: the token endpoint was called.
oauth2_validate_session(session, outcome, at) ==
    IF session.cls # "OAuth2Session"
      THEN [result |-> FALSE, exchanged |-> FALSE, session |-> session]
    ELSE IF is_expired(session, at)
      THEN IF Truthy(refresh_token(session))
             THEN LET r == refresh_session(session, outcome, at)
                  IN [result |-> ~r.raised, exchanged |-> TRUE,
                      session |-> r.session]
             ELSE [result |-> FALSE, exchanged |-> FALSE, session |-> session]
    ELSE [result |-> TRUE, exchanged |-> FALSE, session |-> session]

\* ------------------------------------------------------------------ API key
\* APIKeySession._hash_secret: sha256 of the secret, taken as collision-free.
hash_secret(secret) == [t |-> "sha256", v |-> secret.v]

\* APIKeySession.__init__: secret, hash and key_id enter the credentials only
\* when the argument is truthy.
APIKeySession(session_id, api_key, api_secret, expires_at, key_id, metadata, at) ==
    LET c0 == ("api_key" :> api_key)
        c1 == IF Truthy(api_secret)
                THEN ("api_secret_hash" :> hash_secret(api_secret))
                       @@ ("api_secret" :> api_secret) @@ c0
                ELSE c0
        c2 == IF Truthy(key_id) THEN DictSet(c1, "key_id", key_id) ELSE c1
    IN [AuthSession(session_id, "api_key", expires_at, c2,
                    OrEmptyDict(metadata), at)
            EXCEPT !.cls = "APIKeySession"]

\* A validate_secret that accepts whenever a hash is stored.
validate_secret_any(session, secret) ==
    "api_secret_hash" \in DOMAIN session.credentials

\* APIKeySession.validate_secret
validate_secret(session, secret) ==
    IF "api_secret_hash" \notin DOMAIN session.credentials THEN FALSE
    ELSE hash_secret(secret) = session.credentials["api_secret_hash"]

\* What a validation callback does when awaited: it returns (is_valid,
\* error_msg) or it raises. NoCallback: validate_func is None.
NoCallback == [kind |-> "none", is_valid |-> FALSE, msg |-> PyNone]
Callbacks ==
    {NoCallback,
     [kind |-> "returns", is_valid |-> TRUE, msg |-> PyNone],
     [kind |-> "returns", is_valid |-> FALSE, msg |-> Str("bad key")],
     [kind |-> "raises", is_valid |-> FALSE, msg |-> PyNone]}

\* An authenticate that never awaits the callback.
authenticate_unchecked(validate_func, api_key, api_secret, expires_in, session_id, at) ==
    [raised |-> FALSE, error |-> PyNone,
     result |-> APIKeySession(session_id, api_key, api_secret,
                   IF expires_in # PyNone
                     THEN Time(at + expires_in.n * TicksPerSecond)
                     ELSE PyNone,
                   PyNone, PyNone, at)]

\* APIKeyProvider.authenticate; session_id is str(uuid.uuid4()). A rejection
\* raises ValueError with the callback's message; an exception of the
\* callback propagates.
authenticate(validate_func, api_key, api_secret, expires_in, session_id, at) ==
    IF validate_func.kind = "raises"
      THEN [raised |-> TRUE, error |-> PyNone, result |-> PyNone]
    ELSE IF validate_func.kind = "returns" /\ ~validate_func.is_valid
      THEN [raised |-> TRUE, error |-> validate_func.msg, result |-> PyNone]
    ELSE [raised |-> FALSE, error |-> PyNone,
          result |-> APIKeySession(session_id, api_key, api_secret,
                        IF expires_in # PyNone
                          THEN Time(at + expires_in.n * TicksPerSecond)
                          ELSE PyNone,
                        PyNone, PyNone, at)]

\* A validate_session that asks the callback before looking at the expiry.
api_key_validate_session_callback_first(validate_func, session, at) ==
    IF session.cls # "APIKeySession"
      THEN [result |-> FALSE, called |-> FALSE]
    ELSE IF validate_func.kind # "none"
      THEN [result |-> validate_func.kind = "returns" /\ validate_func.is_valid,
            called |-> TRUE]
    ELSE [result |-> ~is_expired(session, at), called |-> FALSE]

\* APIKeyProvider.validate_session; called: the callback was awaited.
api_key_validate_session(validate_func, session, at) ==
    IF session.cls # "APIKeySession"
      THEN [result |-> FALSE, called |-> FALSE]
    ELSE IF is_expired(session, at)
      THEN [result |-> FALSE, called |-> FALSE]
    ELSE IF validate_func.kind # "none"
      THEN [result |-> validate_func.kind = "returns" /\ validate_func.is_valid,
            called |-> TRUE]
    ELSE [result |-> TRUE, called |-> FALSE]

\* cls.from_dict(data) for cls one of AuthSession, OAuth2Session,
\* APIKeySession: from_dict calls cls(session_id=, auth_type=, expires_at=,
\* credentials=, metadata=), keywords only AuthSession.__init__ accepts, so
\* the subclasses raise TypeError.
from_dict_cls(cls, data, at) ==
    IF cls = "AuthSession"
      THEN [raised |-> FALSE, result |-> from_dict(data, at)]
      ELSE [raised |-> TRUE, result |-> PyNone]

\* ------------------------------------------------ the providers, call by call
\* The sessions a caller obtains are kept in the session storage; validation
\* is called on the stored object.
ApiKeys == {Str("k1")}
ApiSecrets == {PyNone, Str(""), Str("s1")}
SecretGuesses == {Str("s1"), Str("wrong"), Str("")}

\* Token responses the OAuth2 sessions of this driver are built from.
ProviderGrants ==
    {("access_token" :> Str("at1")) @@ ("refresh_token" :> Str("r1")),
     ("access_token" :> Str("at1")) @@ ("expires_in" :> Num(0)),
     ("access_token" :> Str("at1")) @@ ("refresh_token" :> Str("r1"))
         @@ ("expires_in" :> Num(0))}

ApiAuthenticate(validate_func, api_key, api_secret, expires_in, session_id) ==
    /\ session_id \notin issued \cup DOMAIN sessions
    /\ LET r == authenticate(validate_func, api_key, api_secret, expires_in,
                             session_id, now)
       IN /\ sessions' = IF r.raised THEN sessions
                         ELSE update_session(sessions, r.result).store
          /\ issued' = IF r.raised THEN issued ELSE issued \cup {session_id}
          /\ last' = AuthCall("authenticate", session_id,
                              [validate_func |-> validate_func,
                               api_key |-> api_key, api_secret |-> api_secret],
                              r, sessions, now)
    /\ UNCHANGED controllerVars
    /\ UNCHANGED <<transportVars, tools, reg_tools, serverVars,
                   now, tasks, shutdown_calls>>

ApiValidateSecret(session_id, secret) ==
    /\ session_id \in DOMAIN sessions
    /\ sessions[session_id].cls = "APIKeySession"
    /\ last' = AuthCall("validate_secret", session_id,
                        [session |-> sessions[session_id], secret |-> secret],
                        validate_secret(sessions[session_id], secret),
                        sessions, now)
    /\ UNCHANGED controllerVars
    /\ UNCHANGED <<transportVars, tools, reg_tools, serverVars,
                   now, sessions, issued, tasks, shutdown_calls>>

ApiKeyValidateSession(session_id, validate_func) ==
    /\ session_id \in DOMAIN sessions
    /\ last' = AuthCall("api_key_validate_session", session_id,
                        [session |-> sessions[session_id],
                         validate_func |-> validate_func],
                        api_key_validate_session(validate_func,
                                                 sessions[session_id], now),
                        sessions, now)
    /\ UNCHANGED controllerVars
    /\ UNCHANGED <<transportVars, tools, reg_tools, serverVars,
                   now, sessions, issued, tasks, shutdown_calls>>

\* validate_session on the stored session object: what the call leaves of the
\* object is what the storage holds afterwards.
ApiOAuthValidateSession(session_id, outcome) ==
    /\ session_id \in DOMAIN sessions
    /\ LET r == oauth2_validate_session(sessions[session_id], outcome, now)
       IN /\ sessions' = [sessions EXCEPT ![session_id] = r.session]
          /\ last' = AuthCall("oauth2_validate_session", session_id,
                              [session |-> sessions[session_id],
                               outcome |-> outcome],
                              r, sessions, now)
    /\ UNCHANGED controllerVars
    /\ UNCHANGED <<transportVars, tools, reg_tools, serverVars,
                   now, issued, tasks, shutdown_calls>>

\* The provider's validate_session on a session, with no callback configured
\* and a token endpoint that is not needed by a non-expired session.
Accepted(session, at) ==
    IF session.auth_type = "api_key"
      THEN api_key_validate_session(NoCallback, session, at).result
      ELSE oauth2_validate_session(session,
               [kind |-> "http_error", body |-> EmptyDict], at).result

\* A stored session is written with to_dict and rebuilt with from_dict, through
\* AuthSession (own = FALSE) or through its own class, and the rebuilt session
\* is handed to its provider's validate_session.
ApiReload(session_id, own) ==
    /\ session_id \in DOMAIN sessions
    /\ LET session == sessions[session_id]
           r == from_dict_cls(IF own THEN session.cls ELSE "AuthSession",
                              to_dict(session), now)
       IN last' = AuthCall("from_dict_cls", session_id,
                           [session |-> session, own |-> own],
                           [raised |-> r.raised, result |-> r.result,
                            accepted_before |-> Accepted(session, now),
                            accepted_after |->
                                IF r.raised THEN FALSE
                                ELSE Accepted(r.result, now)],
                           sessions, now)
    /\ UNCHANGED controllerVars
    /\ UNCHANGED <<transportVars, tools, reg_tools, serverVars,
                   now, sessions, issued, tasks, shutdown_calls>>

InitProviders ==
    /\ InitObjects
    /\ stdin = <<>>

NextProviders ==
    \/ Tick
    \/ \E id \in SessionIds, g \in ProviderGrants :
          ApiStoreOAuthSession(id, g, EmptyDict)
    \/ \E cb \in Callbacks, k \in ApiKeys, sec \in ApiSecrets,
          e \in {PyNone, Num(0)}, id \in SessionIds :
          ApiAuthenticate(cb, k, sec, e, id)
    \/ \E id \in SessionIds, t \in SecretGuesses : ApiValidateSecret(id, t)
    \/ \E id \in SessionIds, cb \in Callbacks : ApiKeyValidateSession(id, cb)
    \/ \E id \in SessionIds, o \in RefreshOutcomes :
          ApiOAuthValidateSession(id, o)
    \/ \E id \in SessionIds, own \in BOOLEAN : ApiReload(id, own)

SpecProviders == InitProviders /\ [][NextProviders]_vars

\* C21: OAuth2 validate_session is false for a session that is not an OAuth2
\* session, true for a non-expired OAuth2 session, and for an expired one true
\* exactly when it holds a refresh token and the refresh exchange succeeds;
\* it never raises.
C21_OAuthValidateVerdict ==
    last.op = "oauth2_validate_session"
        => LET session == last.arg.session
               outcome == last.arg.outcome
               expired == /\ session.expires_at # PyNone
                          /\ last.at > session.expires_at.at
           IN IF session.cls # "OAuth2Session" THEN ~last.result.result
              ELSE IF ~expired THEN last.result.result
              ELSE last.result.result =
                     (/\ Truthy(refresh_token(session))
                      /\ outcome.kind = "ok"
                      /\ "access_token" \in DOMAIN outcome.body)

\* An expired OAuth2 session with a refresh token was validated while the
\* token endpoint rejected the refresh.
C21_Witness ==
    /\ last.op = "oauth2_validate_session"
    /\ last.arg.session.cls = "OAuth2Session"
    /\ last.arg.session.expires_at # PyNone
    /\ last.at > last.arg.session.expires_at.at
    /\ Truthy(refresh_token(last.arg.session))
    /\ last.arg.outcome.kind = "http_error"
    /\ ~last.result.result

\* C22: authenticate(api_key = k, api_secret = s) gives a session whose
\* credentials hold api_key = k, api_secret = s and api_secret_hash = H(s),
\* on which validate_secret(s) is true and validate_secret(t) false for
\* t # s; without a secret validate_secret is false for every input.
C22_SecretStoredAndValidated ==
    last.op = "authenticate" /\ ~last.result.raised
        => LET c == last.result.result.credentials
               sec == last.arg.api_secret
           IN /\ c["api_key"] = last.arg.api_key
              /\ sec # PyNone
                   => /\ "api_secret" \in DOMAIN c
                      /\ "api_secret_hash" \in DOMAIN c
                      /\ c["api_secret"] = sec
                      /\ c["api_secret_hash"] = hash_secret(sec)
                      /\ validate_secret(last.result.result, sec)
                      /\ \A t \in SecretGuesses \ {sec} :
                            ~validate_secret(last.result.result, t)
              /\ sec = PyNone
                   => \A t \in SecretGuesses :
                         ~validate_secret(last.result.result, t)

\* C23: authenticate fails with the callback's message and produces no session
\* when a configured callback rejects; it produces a session exactly when no
\* callback is configured or the callback accepts.
C23_CallbackGatesAuthenticate ==
    last.op = "authenticate"
        => LET cb == last.arg.validate_func
               accepts == cb.kind = "none"
                            \/ (cb.kind = "returns" /\ cb.is_valid)
           IN /\ cb.kind = "returns" /\ ~cb.is_valid
                   => /\ last.result.raised
                      /\ last.result.error = cb.msg
              /\ last.result.raised
                   => /\ last.result.result = PyNone
                      /\ sessions = last.before
              /\ accepts <=> ~last.result.raised
              /\ ~last.result.raised
                   => last.result.result.cls = "APIKeySession"

\* The callback rejected the key and authenticate failed with its message.
C23_Witness ==
    /\ last.op = "authenticate"
    /\ last.arg.validate_func.kind = "returns"
    /\ ~last.arg.validate_func.is_valid
    /\ last.result.raised
    /\ last.result.error = Str("bad key")

\* C24: API-key validate_session is false for a session that is not an API-key
\* session and for an expired one, both without awaiting the callback; for a
\* non-expired API-key session it is the callback's verdict (false when the
\* callback raises) and true when no callback is configured.
C24_ApiKeyValidateVerdict ==
    last.op = "api_key_validate_session"
        => LET session == last.arg.session
               cb == last.arg.validate_func
               expired == /\ session.expires_at # PyNone
                          /\ last.at > session.expires_at.at
           IN IF session.cls # "APIKeySession" \/ expired
                THEN ~last.result.result /\ ~last.result.called
              ELSE IF cb.kind = "none" THEN last.result.result
              ELSE IF cb.kind = "raises" THEN ~last.result.result
              ELSE last.result.result = cb.is_valid

\* An expired API-key session was validated with a callback that accepts.
C24_Witness ==
    /\ last.op = "api_key_validate_session"
    /\ last.arg.session.cls = "APIKeySession"
    /\ last.arg.session.expires_at # PyNone
    /\ last.at > last.arg.session.expires_at.at
    /\ last.arg.validate_func.kind = "returns"
    /\ last.arg.validate_func.is_valid
    /\ ~last.result.result

\* C27: after OAuth2 validate_session returned true, the session held under
\* that id is not expired, so that validating it again at once needs no
\* token exchange.
C27_ValidatedSessionUsable ==
    last.op = "oauth2_validate_session" /\ last.result.result
        => /\ ~is_expired(sessions[last.session_id], last.at)
           /\ ~oauth2_validate_session(sessions[last.session_id],
                                       last.arg.outcome, last.at).exchanged

\* C28: a session its provider accepts is rebuilt from its to_dict without
\* error, through AuthSession.from_dict or through its own class, and the
\* rebuilt session is accepted by the same provider.
C28_ReloadedSessionAccepted ==
    last.op = "from_dict_cls" /\ last.result.accepted_before
        => /\ ~last.result.raised
           /\ last.result.accepted_after

\* --------------------------- sweep, delete, lookup and update, interleaved
\* clean_expired_sessions up to and including `await get_all_sessions()`: it
\* holds the session objects it enumerated. removed: the stored sessions its
\* deletes took out of the storage, each with the time of the delete.
SweepList ==
    /\ tasks.sweep.pc = "idle"
    /\ tasks' = [tasks EXCEPT !.sweep =
                    [pc |-> "sweeping", todo |-> get_all_sessions(sessions),
                     deleted_count |-> 0, removed |-> {}]]
    /\ UNCHANGED controllerVars
    /\ UNCHANGED <<transportVars, tools, reg_tools, serverVars, last,
                   now, sessions, issued, shutdown_calls>>

\* One turn of the for loop: is_expired() on the enumerated session object
\* and, when it is expired, `await self.delete_session(session.session_id)`.
SweepStep ==
    /\ tasks.sweep.pc = "sweeping"
    /\ \E session \in tasks.sweep.todo :
          LET expired == is_expired(session, now)
              id == session.session_id
              r == delete_session(sessions, id)
          IN /\ sessions' = IF expired THEN r.store ELSE sessions
             /\ tasks' = [tasks EXCEPT !.sweep =
                   [pc |-> "sweeping",
                    todo |-> tasks.sweep.todo \ {session},
                    deleted_count |-> tasks.sweep.deleted_count
                                        + (IF expired THEN 1 ELSE 0),
                    removed |-> tasks.sweep.removed \cup
                        (IF expired /\ id \in DOMAIN sessions
                           THEN {[session |-> sessions[id], at |-> now]}
                           ELSE {})]]
    /\ UNCHANGED controllerVars
    /\ UNCHANGED <<transportVars, tools, reg_tools, serverVars, last,
                   now, issued, shutdown_calls>>

\* The loop is over: return deleted_count.
SweepReturn ==
    /\ tasks.sweep.pc = "sweeping"
    /\ tasks.sweep.todo = {}
    /\ tasks' = [tasks EXCEPT !.sweep =
                    [pc |-> "done", result |-> tasks.sweep.deleted_count,
                     removed |-> tasks.sweep.removed]]
    /\ UNCHANGED controllerVars
    /\ UNCHANGED <<transportVars, tools, reg_tools, serverVars, last,
                   now, sessions, issued, shutdown_calls>>

\* SessionManager.delete_session: one storage call.
ConcDelete(session_id) ==
    /\ tasks.del.pc = "idle"
    /\ LET r == manager_delete_session(sessions, session_id)
       IN /\ sessions' = r.store
          /\ tasks' = [tasks EXCEPT !.del =
                          [pc |-> "done", session_id |-> session_id,
                           result |-> r.result]]
    /\ UNCHANGED controllerVars
    /\ UNCHANGED <<transportVars, tools, reg_tools, serverVars, last,
                   now, issued, shutdown_calls>>

NextSweepConc ==
    \/ Tick
    \/ \E id \in SessionIds :
          \E g \in {x \in GrantArgs : "expires_in" \in DOMAIN x.body} :
             ApiStoreOAuthSession(id, g.body, g.metadata)
    \/ \E id \in SessionIds : GetLoad(id)
    \/ GetSave
    \/ \E id \in SessionIds : UpdRefresh(id)
    \/ UpdSave
    \/ SweepList
    \/ SweepStep
    \/ SweepReturn
    \/ \E id \in SessionIds : ConcDelete(id)

SpecSweepConc == InitConc /\ [][NextSweepConc]_vars

RecursionLimit == 12

\* The operations that send a request to the MCP server, and all operations.
RequestOps ==
    {"login", "verify_login", "logout",
     "list_mail_messages", "list_calendar_events"}
AdapterOps == RequestOps \cup {"async_setup", "get_connection_status"}

\* What the MCP server does with a POST: 200 with success true or false,
\* another status, or the POST raises.
ServerAnswers == {"success", "no_success", "bad_status", "raises"}

\* A coroutine frame: start (just called), awaiting (its callee runs),
\* resumed (its callee returned), caught (its except clause runs).
Frame(op, at) == [op |-> op, pc |-> at]

\* The running coroutine awaits op: a frame is pushed, or RecursionError is
\* raised at the limit. Every `await self.async_setup()` and the
\* `await self.verify_login()` of async_setup stand outside a try, so the
\* error unwinds to the caller; only get_connection_status catches it.
Await(a, op) ==
    LET n == Len(a.stack)
        waiting == [a.stack EXCEPT ![n] = Frame(a.stack[n].op, "awaiting")]
    IN IF n >= RecursionLimit
         THEN IF a.stack[1].op = "get_connection_status"
                THEN [a EXCEPT !.stack =
                         <<Frame("get_connection_status", "caught")>>]
                ELSE [a EXCEPT !.stack = <<>>, !.outcome = "RecursionError"]
         ELSE [a EXCEPT !.stack = Append(waiting, Frame(op, "start"))]

\* The running coroutine returns to the one awaiting it, or to the caller.
Return(a) ==
    LET n == Len(a.stack)
    IN IF n = 1 THEN [a EXCEPT !.stack = <<>>, !.outcome = "returned"]
       ELSE [a EXCEPT !.stack =
                Append(SubSeq(a.stack, 1, n - 2),
                       Frame(a.stack[n - 1].op, "resumed"))]

\* MS365MCPAdapter.async_setup, from its call to its first await or return.
async_setup(a) ==
    LET opened == [a EXCEPT !.session = "ClientSession"]
    IN IF ~a.is_authenticated THEN Await(opened, "verify_login")
       ELSE Return(opened)

\* The POST of a request operation and what the operation does with the
\* answer before it returns.
post(a, op, answer) ==
    LET sent == [a EXCEPT !.posts = 1]
    IN Return(
         IF op = "login" /\ answer = "success"
           THEN [sent EXCEPT !.is_authenticated = TRUE]
         ELSE IF op = "verify_login" /\ answer \in {"success", "no_success"}
           THEN [sent EXCEPT !.is_authenticated = (answer = "success")]
         ELSE IF op = "logout" /\ answer \in {"success", "no_success"}
           THEN [sent EXCEPT !.is_authenticated = FALSE]
         ELSE sent)

\* A caller starts an operation on the adapter.
AdapterCall(op) ==
    /\ adapter.stack = <<>>
    /\ adapter' = [adapter EXCEPT !.stack = <<Frame(op, "start")>>,
                                  !.called = op, !.outcome = "running"]
    /\ UNCHANGED <<transportVars, tools, reg_tools, serverVars, last,
                   authVars, shutdown_calls, hass>>

\* The running coroutine runs to its next await or to its return.
AdapterStep(answer) ==
    /\ adapter.stack # <<>>
    /\ LET top == adapter.stack[Len(adapter.stack)]
       IN adapter' =
            IF top.pc = "start" /\ top.op = "async_setup"
              THEN async_setup(adapter)
            ELSE IF top.pc = "start" /\ top.op \in RequestOps
              THEN Await(adapter, "async_setup")
            ELSE IF top.pc = "start"
              THEN Await(adapter, "verify_login")
            ELSE IF top.pc = "resumed" /\ top.op \in RequestOps
              THEN post(adapter, top.op, answer)
            ELSE Return(adapter)
    /\ UNCHANGED <<transportVars, tools, reg_tools, serverVars, last,
                   authVars, shutdown_calls, hass>>

\* MS365MCPAdapter.async_close
AdapterClose ==
    /\ adapter.stack = <<>>
    /\ adapter.session # "None"
    /\ adapter' = [adapter EXCEPT !.session = "None"]
    /\ UNCHANGED <<transportVars, tools, reg_tools, serverVars, last,
                   authVars, shutdown_calls, hass>>

InitAdapter ==
    /\ InitObjects
    /\ stdin = <<>>

NextAdapter ==
    \/ \E op \in AdapterOps : AdapterCall(op)
    \/ \E answer \in ServerAnswers : AdapterStep(answer)
    \/ AdapterClose

SpecAdapter == InitAdapter /\ [][NextAdapter]_vars

\* C29: every operation of the adapter returns: no call ends in
\* RecursionError, async_setup nests at most one verify_login, and a request
\* operation that has returned has sent its request.
C29_OperationsReturn ==
    /\ adapter.outcome # "RecursionError"
    /\ Cardinality({i \in 1..Len(adapter.stack) :
                       adapter.stack[i].op = "verify_login"}) <= 1
    /\ adapter.outcome = "returned" /\ adapter.called \in RequestOps
         => adapter.posts = 1

\* ------------------------------------------------------------ OAuth views
\* Service names a caller may register or ask for; "other" is never
\* registered.
ServiceNames == {"ms365", "graph"}
RequestedServices == ServiceNames \cup {"other"}

\* The values secrets.token_hex(16) may return.
OAuthStates == {"st1", "st2"}

\* The query of a callback request: code, state and error, each absent, empty
\* or given; the state may be one a login view issued or a forged one.
CallbackQueries ==
    [code : {PyNone, Str("c1")},
     state : {PyNone, Str("")} \cup {Str(st) : st \in OAuthStates \cup {"forged"}},
     error : {PyNone, Str("access_denied")}]

\* The response of a view, and what the view did before it answered.
Response(view, status, state, known, exchanged, called_back) ==
    [view |-> view, status |-> status, state |-> state, known |-> known,
     exchanged |-> exchanged, called_back |-> called_back]

\* register_oauth_implementation
register_oauth_implementation(h, service_name) ==
    [h EXCEPT !.implementations = @ \cup {service_name}]

\* M365OAuthLoginView.get; state is what secrets.token_hex(16) returned.
login_view_get(h, service_name, state) ==
    IF service_name \notin h.implementations
      THEN [h EXCEPT !.response =
               Response("login", 404, PyNone, FALSE, FALSE, FALSE)]
      ELSE [h EXCEPT
               !.oauth_states = DictSet(@, state, Str(service_name)),
               !.issued = @ \cup {[state |-> state, service |-> service_name]},
               !.response =
                   Response("login", 200, Str(state), FALSE, FALSE, FALSE)]

\* A callback view that looks the state up and leaves it in oauth_states.
callback_view_get_keeps_state(h, query, outcome) ==
    LET known == query.state.v \in DOMAIN h.oauth_states
        service_name == DictGet(h.oauth_states, query.state.v, PyNone)
        entry == [state |-> query.state.v, service |-> service_name.v]
    IN IF Truthy(query.error)
         THEN [h EXCEPT !.response =
                  Response("callback", 400, query.state, known, FALSE, FALSE)]
       ELSE IF ~Truthy(query.code) \/ ~Truthy(query.state)
         THEN [h EXCEPT !.response =
                  Response("callback", 400, query.state, known, FALSE, FALSE)]
       ELSE IF ~Truthy(service_name)
         THEN [h EXCEPT !.response =
                  Response("callback", 400, query.state, known, FALSE, FALSE)]
       ELSE IF service_name.v \notin h.implementations
         THEN [h EXCEPT !.response =
                  Response("callback", 404, query.state, known, FALSE, FALSE)]
       ELSE IF outcome = "raises"
         THEN [h EXCEPT !.exchanges = Append(@, entry),
                        !.response = Response("callback", 500, query.state,
                                              known, TRUE, FALSE)]
       ELSE [h EXCEPT !.exchanges = Append(@, entry),
                      !.callbacks = Append(@, entry),
                      !.response = Response("callback", 200, query.state,
                                            known, TRUE, TRUE)]

\* M365OAuthCallbackView.get; outcome is what async_resolve_external_data
\* does with the code: it returns token data or raises.
callback_view_get(h, query, outcome) ==
    LET known == query.state.v \in DOMAIN h.oauth_states
        service_name == DictGet(h.oauth_states, query.state.v, PyNone)
        popped == [h EXCEPT !.oauth_states =
                      IF known THEN DictDel(@, query.state.v) ELSE @]
        entry == [state |-> query.state.v, service |-> service_name.v]
    IN IF Truthy(query.error)
         THEN [h EXCEPT !.response =
                  Response("callback", 400, query.state, known, FALSE, FALSE)]
       ELSE IF ~Truthy(query.code) \/ ~Truthy(query.state)
         THEN [h EXCEPT !.response =
                  Response("callback", 400, query.state, known, FALSE, FALSE)]
       ELSE IF ~Truthy(service_name)
         THEN [popped EXCEPT !.response =
                  Response("callback", 400, query.state, known, FALSE, FALSE)]
       ELSE IF service_name.v \notin h.implementations
         THEN [popped EXCEPT !.response =
                  Response("callback", 404, query.state, known, FALSE, FALSE)]
       ELSE IF outcome = "raises"
         THEN [popped EXCEPT !.exchanges = Append(@, entry),
                             !.response = Response("callback", 500,
                                             query.state, known, TRUE, FALSE)]
       ELSE [popped EXCEPT !.exchanges = Append(@, entry),
                           !.callbacks = Append(@, entry),
                           !.response = Response("callback", 200,
                                           query.state, known, TRUE, TRUE)]

\* An adapter registers the OAuth implementation of its service.
ApiRegisterImplementation(service_name) ==
    /\ hass' = register_oauth_implementation(hass, service_name)
    /\ UNCHANGED <<transportVars, tools, reg_tools, serverVars, last,
                   authVars, shutdown_calls, adapter>>

\* GET /api/mcp_controller/m365_oauth/{service_name}; token_hex returns a
\* value it has not returned before.
ApiLoginView(service_name, state) ==
    /\ state \notin {e.state : e \in hass.issued}
    /\ hass' = login_view_get(hass, service_name, state)
    /\ UNCHANGED <<transportVars, tools, reg_tools, serverVars, last,
                   authVars, shutdown_calls, adapter>>

\* GET /api/mcp_controller/m365_oauth_callback
ApiCallbackView(query, outcome) ==
    /\ hass' = callback_view_get(hass, query, outcome)
    /\ UNCHANGED <<transportVars, tools, reg_tools, serverVars, last,
                   authVars, shutdown_calls, adapter>>

InitOAuthApi ==
    /\ InitObjects
    /\ stdin = <<>>

NextOAuthApi ==
    \/ \E service_name \in ServiceNames : ApiRegisterImplementation(service_name)
    \/ \E service_name \in RequestedServices, state \in OAuthStates :
          ApiLoginView(service_name, state)
    \/ \E query \in CallbackQueries, outcome \in {"token", "raises"} :
          ApiCallbackView(query, outcome)

SpecOAuthApi == InitOAuthApi /\ [][NextOAuthApi]_vars

\* The states for which a token exchange was made, in order.
ExchangedStates == [i \in 1..Len(hass.exchanges) |-> hass.exchanges[i].state]

\* C30: an OAuth state is single-use and must have been issued: every token
\* exchange and every token callback is for a state the login view issued,
\* for the service it was issued for, and no state is exchanged twice; a
\* callback whose state is not outstanding is answered 400 with no exchange
\* and no token callback.
C30_StateSingleUse ==
    /\ \A i \in 1..Len(hass.exchanges) : hass.exchanges[i] \in hass.issued
    /\ \A i, j \in 1..Len(hass.exchanges) :
          ExchangedStates[i] = ExchangedStates[j] => i = j
    /\ \A i \in 1..Len(hass.callbacks) :
          \E j \in 1..Len(hass.exchanges) :
             hass.callbacks[i] = hass.exchanges[j]
    /\ \A i, j \in 1..Len(hass.callbacks) :
          hass.callbacks[i] = hass.callbacks[j] => i = j
    /\ hass.response.view = "callback" /\ ~hass.response.known
         => /\ ~hass.response.exchanged
            /\ ~hass.response.called_back
            /\ hass.response.status = 400

\* A state that was exchanged once is presented again, with a code and no
\* error, and is rejected.
C30_Witness ==
    /\ hass.response.view = "callback"
    /\ hass.response.status = 400
    /\ ~hass.response.known
    /\ Len(hass.callbacks) >= 1
    /\ \E i \in 1..Len(hass.exchanges) :
          Str(ExchangedStates[i]) = hass.response.state

====
